---- MODULE Spec2Model ----
(***************************************************************************)
(* A model of the tagline driver (tagline_driver.c) and of its write-back  *)
(* LRU cache (raid_cache.c) over the RAID bus.                             *)
(*                                                                         *)
(* The linked list of taglines and each tagline's linked list of blocks    *)
(* are sequences.  The cache is kept as the code keeps it: the set of hash *)
(* nodes, and the queue nodes with their next_node and prev_node pointers  *)
(* and the queue's front_ptr and back_ptr.  A queue node is named by the   *)
(* (disk, block) pair of its parent hash node.  Every driver call is one   *)
(* action; the bus responses and the contents of uninitialised memory it   *)
(* meets are inputs of the action.                                         *)
(***************************************************************************)
EXTENDS Integers, Sequences, FiniteSets, TLC

\* ------------------------------------------------------------ geometry
\* The array geometry and the cache size, scaled down.
RAID_DISKS == 2
RAID_DISKBLOCKS == 1
TAGLINE_CACHE_SIZE == 2
\* raid_cache.c: #define HASHTABLE_SIZE
HASHTABLE_SIZE == 8192

\* ------------------------------------------------------------ bounds
\* largest maxlines given to tagline_driver_init
MaxLines == 2
\* block payloads are 1..NumValues; 0 is a blank (formatted) block
NumValues == 2
\* driver calls in one run
MaxOps == 5
\* a bus fault hits at most the MaxFaultAt-th request of a call
MaxFaultAt == 4
\* calls of put_raid_cache and get_raid_cache in one run of the cache alone
MaxCacheOps == 6
\* a multi-block call is for at most MaxBlks blocks
MaxBlks == 2
\* a behaviour with multi-block calls makes at most MaxBlockOps calls
MaxBlockOps == 4

Disks == 0 .. RAID_DISKS - 1
\* Every address the driver can name: RAID_scheduler also hands out the
\* row RAID_DISKBLOCKS (see RAID_scheduler).
Addr == Disks \X (0 .. RAID_DISKBLOCKS)
Values == 1 .. NumValues
Blank == 0
NULL == <<>>
\* get_raid_cache's NULL
NOBUF == 0 - 1

VARIABLES
    head_tag,          \* the list of TAGLINE nodes, each with its list of BLOCKs
    taglines_in_use,
    current_disk,      \* the allocation cursor of RAID_scheduler
    current_block,
    hashtable,         \* the (disk, block) pairs that have a hash node
    qnode,             \* live queue nodes: key -> [value_buf, next_node, prev_node]
    cache_queue,       \* [capacity, back_ptr, front_ptr]
    raid,              \* the array behind the bus: address -> payload
    phase,             \* "start", "open", "failed", "closed", "crashed"
    last,              \* the last driver call: its arguments and its result
    trace,             \* cache calls and bus requests of the last driver call
    shadow,            \* (tag, bnum) -> payload of the last successful write
    nops

vars == << head_tag, taglines_in_use, current_disk, current_block, hashtable,
           qnode, cache_queue, raid, phase, last, trace, shadow, nops >>

\* RAID_REQUEST / RAID_RESPONSE
Request(type, nblocks, dsk, blk) ==
    [request_type |-> type, number_of_blocks |-> nblocks, disk_number |-> dsk,
     reserved |-> 0, status |-> 0, blockid |-> blk]

\* ------------------------------------------------------------ call state
\* The C functions are operators on a record of the whole program state.
\* ret is the value the function returns, crash is set when the call
\* dereferences a null or freed pointer, faults are the ordinals of the
\* bus requests of this call that the bus answers with status 1 (n) or with
\* a response that does not echo the request (-n), failed are the disks
\* whose STATUS response carries block_id 2, stale is what a walk of the
\* tagline list finds: 0 when the list is allocated memory; when its nodes
\* were freed, a trap (-1) or the number of freed nodes still chained from
\* head_tag.
Cur(faults, failed) ==
    [ head_tag |-> head_tag, taglines_in_use |-> taglines_in_use,
      current_disk |-> current_disk, current_block |-> current_block,
      hashtable |-> hashtable, qnode |-> qnode,
      capacity |-> cache_queue.capacity,
      back_ptr |-> cache_queue.back_ptr, front_ptr |-> cache_queue.front_ptr,
      raid |-> raid, trace |-> << >>, nreq |-> 0, faults |-> faults,
      failed |-> failed, ret |-> 0, crash |-> FALSE, out |-> << >>,
      resp |-> Request("NONE", 0, 0, 0), rbuf |-> Blank,
      sched |-> NULL, allocs |-> 0, stale |-> 0 ]

Crash(s) == [s EXCEPT !.crash = TRUE]
Return(s, v) == IF s.crash THEN s ELSE [s EXCEPT !.ret = v]
Failed(s) == s.crash \/ s.ret # 0
Log(s, e) == [s EXCEPT !.trace = Append(@, e)]
\* a callee's result handed back as the caller's 0 or -1
Status(r) == IF Failed(r) THEN Return(r, -1) ELSE Return(r, 0)

\* F applied to the value of x: x is evaluated once, as a C statement is
\* executed once, however often F reads its result.
Then(x, F(_)) == CHOOSE r \in { F(v) : v \in {x} } : TRUE

\* ------------------------------------------------------------ the bus
\* client_raid_bus_request: one synchronous request and its response, which
\* echoes the request.  A request the bus answers with status 1 has no
\* effect on the array.  rbuf is the payload a READ brings back.
client_raid_bus_request(s, req, buf) ==
    LET n == s.nreq + 1
        st == IF n \in s.faults THEN 1 ELSE 0
        echo == (0 - n) \notin s.faults
        a == <<req.disk_number, req.blockid>>
    IN  Then([s EXCEPT !.nreq = n,
                 !.trace = Append(@, [ev |-> "bus", type |-> req.request_type,
                                      disk |-> req.disk_number, block |-> req.blockid,
                                      buf |-> buf, status |-> st, echo |-> echo]),
                 !.resp = [req EXCEPT !.status = st,
                                      !.number_of_blocks =
                                          IF echo THEN @ ELSE (@ + 1) % 256]],
          LAMBDA s1 :
            IF st = 1 THEN s1
            ELSE CASE req.request_type = "WRITE" -> [s1 EXCEPT !.raid[a] = buf]
                   [] req.request_type = "READ" -> [s1 EXCEPT !.rbuf = s.raid[a]]
                   [] req.request_type = "FORMAT" ->
                        [s1 EXCEPT !.raid = [x \in Addr |->
                                    IF x[1] = req.disk_number THEN Blank ELSE s.raid[x]]]
                   [] req.request_type = "STATUS" ->
                        [s1 EXCEPT !.resp.blockid =
                                    IF req.disk_number \in s.failed THEN 2 ELSE 0]
                   [] OTHER -> s1)

\* check_response: every echoed field, and the status bit
check_response(request, response) ==
    IF request.request_type # response.request_type THEN 0 - 1
    ELSE IF request.number_of_blocks # response.number_of_blocks THEN 0 - 1
    ELSE IF request.disk_number # response.disk_number THEN 0 - 1
    ELSE IF response.status # 0 THEN 0 - 1
    ELSE IF request.blockid # response.blockid THEN 0 - 1
    ELSE 0

\* ------------------------------------------------------------ the cache
hashfunction(disk, block) == (disk * 10000 + block) % HASHTABLE_SIZE

\* hashtable[hash_value] == NULL
BucketEmpty(s, h) == \A k \in s.hashtable : hashfunction(k[1], k[2]) # h
\* a pointer to a queue node that has not been freed
IsNode(s, p) == p \in DOMAIN s.qnode

NewNode(buf) == [value_buf |-> buf, next_node |-> NULL, prev_node |-> NULL]

\* A faulty variant of evict_lru that frees the front node without writing
\* it to the bus; C15 tells it from evict_lru.
evict_lru_silent(s) ==
    LET eject == s.front_ptr IN
    IF eject = NULL THEN Return(s, -1)
    ELSE IF ~IsNode(s, eject) THEN Crash(s)
    ELSE LET prev == s.qnode[eject].prev_node IN
         IF ~IsNode(s, prev) THEN Crash(s)
         ELSE Return(
                [s EXCEPT !.front_ptr = prev,
                          !.qnode = [k \in DOMAIN s.qnode \ {eject} |->
                                       IF k = prev
                                       THEN [s.qnode[k] EXCEPT !.next_node = NULL]
                                       ELSE s.qnode[k]],
                          !.capacity = @ - 1], 0)

\* A faulty variant of evict_lru that unlinks and frees the front node also
\* when the bus refused the WRITE; C16 tells it from evict_lru.
evict_lru_lossy(s) ==
    LET eject == s.front_ptr IN
    IF eject = NULL THEN Return(s, -1)
    ELSE IF ~IsNode(s, eject) THEN Crash(s)
    ELSE
      Then(client_raid_bus_request(s, Request("WRITE", 1, eject[1], eject[2]),
                                   s.qnode[eject].value_buf),
        LAMBDA s1 :
          LET prev == s1.qnode[eject].prev_node IN
          IF ~IsNode(s1, prev) THEN Crash(s1)
          ELSE Return(
                 [s1 EXCEPT !.front_ptr = prev,
                            !.qnode = [k \in DOMAIN s1.qnode \ {eject} |->
                                         IF k = prev
                                         THEN [s1.qnode[k] EXCEPT !.next_node = NULL]
                                         ELSE s1.qnode[k]],
                            !.capacity = @ - 1],
                 IF s1.resp.status # 0 THEN 0 - 1 ELSE 0))

\* evict_lru: write the front node to the bus, then unlink and free it.
evict_lru(s) ==
    LET eject == s.front_ptr IN
    IF eject = NULL THEN Return(s, -1)
    ELSE IF ~IsNode(s, eject) THEN Crash(s)
    ELSE
      Then(client_raid_bus_request(s, Request("WRITE", 1, eject[1], eject[2]),
                                   s.qnode[eject].value_buf),
        LAMBDA s1 :
          IF s1.resp.status # 0 THEN Return(s1, -1)
          ELSE LET prev == s1.qnode[eject].prev_node IN
               IF ~IsNode(s1, prev) THEN Crash(s1)
               ELSE Return(
                      [s1 EXCEPT !.front_ptr = prev,
                                 !.qnode = [k \in DOMAIN s1.qnode \ {eject} |->
                                              IF k = prev
                                              THEN [s1.qnode[k] EXCEPT !.next_node = NULL]
                                              ELSE s1.qnode[k]],
                                 !.capacity = @ - 1], 0))

\* insert_in_queue: link node behind back_ptr, evict when over the size.
insert_in_queue(s, node) ==
    IF ~IsNode(s, s.back_ptr) THEN Crash(s)
    ELSE
      Then([s EXCEPT !.qnode[node].next_node = s.back_ptr,
                     !.qnode[node].prev_node = NULL,
                     !.qnode[s.back_ptr].prev_node = node,
                     !.back_ptr = node,
                     !.capacity = @ + 1],
        LAMBDA s1 :
          IF s1.capacity > TAGLINE_CACHE_SIZE
          THEN Then(evict_lru(s1), LAMBDA s2 : Status(s2))
          ELSE Return(s1, 0))

\* update_block_in_queue: move node to the back of the queue.
update_block_in_queue(s, node) ==
    LET n == s.qnode[node] IN
    IF n.prev_node = NULL /\ n.next_node = NULL THEN
        \* "new node to add"
        IF ~IsNode(s, s.back_ptr) THEN Crash(s)
        ELSE Return([s EXCEPT !.qnode[s.back_ptr].prev_node = node,
                              !.qnode[node].next_node = s.back_ptr,
                              !.qnode[node].prev_node = NULL,
                              !.back_ptr = node], 0)
    ELSE IF n.prev_node = NULL /\ n.next_node # NULL THEN
        Return(s, 0)
    ELSE IF n.prev_node # NULL /\ n.next_node = NULL THEN
        \* "updating the front of the queue", through front_ptr and back_ptr
        LET f == s.front_ptr
            bk == s.back_ptr
        IN  IF ~IsNode(s, f) \/ ~IsNode(s, bk) THEN Crash(s)
            ELSE Then([s EXCEPT !.qnode[f].next_node = bk,
                                !.qnode[bk].prev_node = f],
                   LAMBDA b :
                     LET fp == b.qnode[f].prev_node IN
                     IF ~IsNode(b, fp) THEN Crash(b)
                     ELSE Return([b EXCEPT !.qnode[fp].next_node = NULL,
                                           !.back_ptr = f,
                                           !.front_ptr = fp,
                                           !.qnode[f].prev_node = NULL], 0))
    ELSE
        \* "updating from the middle of the queue"
        IF ~IsNode(s, n.prev_node) \/ ~IsNode(s, n.next_node) \/ ~IsNode(s, s.back_ptr)
        THEN Crash(s)
        ELSE Return([s EXCEPT !.qnode[n.prev_node].next_node = n.next_node,
                              !.qnode[n.next_node].prev_node = n.prev_node,
                              !.qnode[s.back_ptr].prev_node = node,
                              !.qnode[node].next_node = s.back_ptr,
                              !.qnode[node].prev_node = NULL,
                              !.back_ptr = node], 0)

\* put_raid_cache
put_raid_cache(s0, dsk, blk, buf) ==
    LET k == <<dsk, blk>> IN
    Then(Log(s0, [ev |-> "put", disk |-> dsk, block |-> blk, buf |-> buf]),
      LAMBDA s :
        IF BucketEmpty(s, hashfunction(dsk, blk)) THEN
            Then([s EXCEPT !.hashtable = @ \cup {k}, !.qnode = (k :> NewNode(buf)) @@ @],
              LAMBDA fresh :
                IF s.capacity = 0 THEN
                    Return([fresh EXCEPT !.front_ptr = k, !.back_ptr = k,
                                         !.capacity = @ + 1], 0)
                ELSE IF s.capacity = 1 THEN
                    IF ~IsNode(s, s.front_ptr) THEN Crash(fresh)
                    ELSE Return([fresh EXCEPT !.back_ptr = k,
                                              !.qnode[s.front_ptr].prev_node = k,
                                              !.qnode[k].next_node = s.front_ptr,
                                              !.capacity = @ + 1], 0)
                ELSE Then(insert_in_queue(fresh, k), LAMBDA r : Status(r)))
        ELSE IF k \notin s.hashtable \/ ~IsNode(s, k) THEN
            \* a new hash node on the chain, or a hash node whose
            \* cache_block_ptr is NULL: a new queue node either way
            Then([s EXCEPT !.hashtable = @ \cup {k}, !.qnode = (k :> NewNode(buf)) @@ @],
              LAMBDA fresh : Then(insert_in_queue(fresh, k), LAMBDA r : Status(r)))
        ELSE
            Then([s EXCEPT !.qnode[k].value_buf = buf],
              LAMBDA u : Then(update_block_in_queue(u, k), LAMBDA r : Status(r))))

\* get_raid_cache: the node's buffer, or NOBUF; the queue is left as it is.
get_raid_cache(s, dsk, blk) ==
    LET k == <<dsk, blk>>
        hit == k \in s.hashtable /\ IsNode(s, k)
    IN  [Log(s, [ev |-> "get", disk |-> dsk, block |-> blk, hit |-> hit,
                     buf |-> IF hit THEN s.qnode[k].value_buf ELSE NOBUF])
            EXCEPT !.ret = IF hit THEN s.qnode[k].value_buf ELSE NOBUF]

\* ------------------------------------------------------------ the driver
\* RAID_scheduler: hand out the cursor's address and advance the cursor.
\* The primary_disk argument is not read.  sched is *new_scheduled_block.
Hand(s) == Log([s EXCEPT !.sched = <<s.current_disk, s.current_block>>,
                         !.allocs = @ + 1],
               [ev |-> "alloc", disk |-> s.current_disk, block |-> s.current_block])

\* a scheduler that goes back to disk 0 without moving to the next row
RAID_scheduler_stuck(s) ==
    IF s.current_block = RAID_DISKBLOCKS /\ s.current_disk = RAID_DISKS THEN
        Return(s, -1)
    ELSE IF s.current_disk = RAID_DISKS - 1 THEN
        Return([Hand(s) EXCEPT !.current_disk = 0], 0)
    ELSE
        Return([Hand(s) EXCEPT !.current_disk = @ + 1], 0)

RAID_scheduler(s) ==
    IF s.current_block = RAID_DISKBLOCKS /\ s.current_disk = RAID_DISKS THEN
        Return(s, -1)
    ELSE IF s.current_block = RAID_DISKBLOCKS - 1 /\ s.current_disk = RAID_DISKS THEN
        Return([Hand(s) EXCEPT !.current_disk = @ + 1, !.current_block = @ + 1], 0)
    ELSE IF s.current_disk = RAID_DISKS - 1 THEN
        Return([Hand(s) EXCEPT !.current_disk = 0,
                               !.current_block = IF @ = RAID_DISKBLOCKS THEN 0 ELSE @ + 1], 0)
    ELSE
        Return([Hand(s) EXCEPT !.current_disk = @ + 1], 0)

\* The block node malloc'ed by tagline_write: block, RAID_disk, RAID_block are
\* assigned when the node is linked; backup_disk and backup_block keep what
\* the allocated memory held (g) until the mirror is assigned.  backup_set
\* records that assignment.
NewBlock(bnum, primary, g) ==
    [block |-> bnum, RAID_disk |-> primary[1], RAID_block |-> primary[2],
     backup_disk |-> g[1], backup_block |-> g[2], backup_set |-> FALSE]

\* A faulty variant of link_block that leaves blocks_in_tagline as it was;
\* C9 tells it from link_block.
link_block_uncounted(s, tag, bnum, primary, g) ==
    [s EXCEPT !.head_tag[tag + 1] =
         [@ EXCEPT !.max_start_allowed = @ + 1,
                   !.blocks = Append(@, NewBlock(bnum, primary, g))]]

\* tagline_write, the structures updated after the primary is cached
link_block(s, tag, bnum, primary, g) ==
    [s EXCEPT !.head_tag[tag + 1] =
         [@ EXCEPT !.blocks_in_tagline = @ + 1,
                   !.max_start_allowed = @ + 1,
                   !.blocks = Append(@, NewBlock(bnum, primary, g))]]

\* tagline_write, the backup recorded in new_block
set_backup(s, tag, backup) ==
    [s EXCEPT !.head_tag[tag + 1].blocks[Len(s.head_tag[tag + 1].blocks)] =
         [@ EXCEPT !.backup_disk = backup[1], !.backup_block = backup[2],
                   !.backup_set = TRUE]]

\* an append that also writes the primary through to the bus
write_new_through(s, tag, bnum, buf, g) ==
    Then(RAID_scheduler(s), LAMBDA s1 :
      IF Failed(s1) THEN Return(s1, -1) ELSE
      Then(put_raid_cache(s1, s1.sched[1], s1.sched[2], buf), LAMBDA s2 :
        IF Failed(s2) THEN Return(s2, -1) ELSE
        Then(client_raid_bus_request(s2, Request("WRITE", 1, s1.sched[1], s1.sched[2]),
                                     buf), LAMBDA s3 :
          IF s3.resp.status # 0 THEN Return(s3, -1) ELSE
          Then(RAID_scheduler(link_block(s3, tag, bnum, s1.sched, g)), LAMBDA s4 :
            IF Failed(s4) THEN Return(s4, -1) ELSE
            Then(put_raid_cache(s4, s4.sched[1], s4.sched[2], buf), LAMBDA s5 :
              IF Failed(s5) THEN Return(s5, -1)
              ELSE Return(set_backup(s5, tag, s4.sched), 0))))))

\* tagline_write, new block: bnum == max_start
write_new(s, tag, bnum, buf, g) ==
    Then(RAID_scheduler(s), LAMBDA s1 :
      IF Failed(s1) THEN Return(s1, -1) ELSE
      Then(put_raid_cache(s1, s1.sched[1], s1.sched[2], buf), LAMBDA s2 :
        IF Failed(s2) THEN Return(s2, -1) ELSE
        Then(RAID_scheduler(link_block(s2, tag, bnum, s1.sched, g)), LAMBDA s4 :
          IF Failed(s4) THEN Return(s4, -1) ELSE
          Then(put_raid_cache(s4, s4.sched[1], s4.sched[2], buf), LAMBDA s5 :
            IF Failed(s5) THEN Return(s5, -1)
            ELSE Return(set_backup(s5, tag, s4.sched), 0)))))

\* A faulty variant of write_old that takes a fresh address from the
\* allocator for the block it overwrites; C10 tells it from write_old.
write_old_moved(s, tag, bnum, buf) ==
    Then(RAID_scheduler(s), LAMBDA s0 :
      Then(put_raid_cache(s0, s0.sched[1], s0.sched[2], buf), LAMBDA s1 :
        IF Failed(s1) THEN Return(s1, -1)
        ELSE Return([s1 EXCEPT !.head_tag[tag + 1].blocks[bnum + 1] =
                        [@ EXCEPT !.RAID_disk = s0.sched[1],
                                  !.RAID_block = s0.sched[2]]], 0)))

\* an overwrite that leaves the mirror as it is
write_old_primary_only(s, tag, bnum, buf) ==
    LET cb == s.head_tag[tag + 1].blocks[bnum + 1] IN
    Then(put_raid_cache(s, cb.RAID_disk, cb.RAID_block, buf), LAMBDA s1 : Status(s1))

\* tagline_write, old block: bnum < max_start
write_old(s, tag, bnum, buf) ==
    LET cb == s.head_tag[tag + 1].blocks[bnum + 1] IN
    Then(put_raid_cache(s, cb.RAID_disk, cb.RAID_block, buf), LAMBDA s1 :
      IF Failed(s1) THEN Return(s1, -1) ELSE
      Then(put_raid_cache(s1, cb.backup_disk, cb.backup_block, buf), LAMBDA s2 :
        Status(s2)))

\* tagline_write of one block.  A tag that does not exist is logged and the
\* call goes on: get_max_start_allowed walks off the end of the tag list and
\* reads through a null pointer.  g.trap: the read traps; otherwise it yields
\* g.max_start and the call goes on to the next walk of the list, which
\* traps.
write_block(s, tag, bnum, buf, g) ==
    IF tag >= s.taglines_in_use THEN
        IF g.trap THEN Crash(s)
        ELSE IF bnum = g.max_start THEN
            Then(RAID_scheduler(s), LAMBDA s1 :
              IF Failed(s1) THEN Return(s1, -1) ELSE
              Then(put_raid_cache(s1, s1.sched[1], s1.sched[2], buf), LAMBDA s2 :
                IF Failed(s2) THEN Return(s2, -1) ELSE Crash(s2)))
        ELSE IF bnum < g.max_start THEN Crash(s)
        ELSE Return(s, 0)
    ELSE
        LET max_start == s.head_tag[tag + 1].max_start_allowed IN
        IF bnum = max_start THEN write_new(s, tag, bnum, buf, g.addr)
        ELSE IF bnum < max_start THEN write_old(s, tag, bnum, buf)
        ELSE Return(s, 0)

RECURSIVE write_loop(_, _, _, _, _, _, _)
write_loop(s, tag, bnum, blks, bufs, g, block) ==
    IF block >= blks THEN Return(s, 0)
    ELSE Then(write_block(s, tag, bnum + block, bufs[block + 1], g), LAMBDA r :
           IF Failed(r) THEN Return(r, -1)
           ELSE write_loop(r, tag, bnum, blks, bufs, g, block + 1))

\* tagline_write
tagline_write(s, tag, bnum, blks, bufs, g) ==
    IF blks > 1 THEN write_loop(s, tag, bnum, blks, bufs, g, 0)
    ELSE write_block(s, tag, bnum, bufs[1], g)

\* A faulty variant of read_block that returns 0, delivering nothing, for a
\* block at or above max_start_allowed; C6 tells it from read_block.
read_block_lenient(s, tag, bnum) ==
    IF tag >= s.taglines_in_use THEN Return(s, -1)
    ELSE IF bnum >= s.head_tag[tag + 1].max_start_allowed THEN Return(s, 0)
    ELSE
      LET cb == s.head_tag[tag + 1].blocks[bnum + 1] IN
      Then(get_raid_cache(s, cb.RAID_disk, cb.RAID_block), LAMBDA s1 :
        IF s1.ret = NOBUF THEN
          Then(client_raid_bus_request(s1,
                   Request("READ", 1, cb.RAID_disk, cb.RAID_block), Blank), LAMBDA s2 :
            IF s2.resp.status # 0 THEN Return(s2, -1)
            ELSE Then(put_raid_cache([s2 EXCEPT !.out = Append(@, s2.rbuf)],
                                     cb.RAID_disk, cb.RAID_block, s2.rbuf),
                   LAMBDA s4 : Return(s4, 0)))
        ELSE Return([s1 EXCEPT !.out = Append(@, s1.ret)], 0))

\* a read that looks the mirror up in the cache when the primary misses
read_block_fallback(s, tag, bnum) ==
    IF tag >= s.taglines_in_use THEN Return(s, -1)
    ELSE IF bnum >= s.head_tag[tag + 1].max_start_allowed THEN Return(s, -1)
    ELSE
      LET cb == s.head_tag[tag + 1].blocks[bnum + 1] IN
      Then(get_raid_cache(s, cb.RAID_disk, cb.RAID_block), LAMBDA s1 :
        IF s1.ret # NOBUF THEN Return([s1 EXCEPT !.out = Append(@, s1.ret)], 0) ELSE
        Then(get_raid_cache(s1, cb.backup_disk, cb.backup_block), LAMBDA m :
          IF m.ret # NOBUF THEN Return([m EXCEPT !.out = Append(@, m.ret)], 0) ELSE
          Then(client_raid_bus_request(m,
                   Request("READ", 1, cb.RAID_disk, cb.RAID_block), Blank), LAMBDA s2 :
            IF s2.resp.status # 0 THEN Return(s2, -1)
            ELSE Then(put_raid_cache([s2 EXCEPT !.out = Append(@, s2.rbuf)],
                                     cb.RAID_disk, cb.RAID_block, s2.rbuf),
                   LAMBDA s4 : Return(s4, 0)))))

\* tagline_read of one block; out collects what is delivered to the caller.
read_block(s, tag, bnum) ==
    IF tag >= s.taglines_in_use THEN Return(s, -1)
    ELSE IF bnum >= s.head_tag[tag + 1].max_start_allowed THEN Return(s, -1)
    ELSE
      LET cb == s.head_tag[tag + 1].blocks[bnum + 1] IN
      Then(get_raid_cache(s, cb.RAID_disk, cb.RAID_block), LAMBDA s1 :
        IF s1.ret = NOBUF THEN
          Then(client_raid_bus_request(s1,
                   Request("READ", 1, cb.RAID_disk, cb.RAID_block), Blank), LAMBDA s2 :
            IF s2.resp.status # 0 THEN Return(s2, -1)
            ELSE \* a failed put is logged, not returned
                 Then(put_raid_cache([s2 EXCEPT !.out = Append(@, s2.rbuf)],
                                     cb.RAID_disk, cb.RAID_block, s2.rbuf),
                   LAMBDA s4 : Return(s4, 0)))
        ELSE Return([s1 EXCEPT !.out = Append(@, s1.ret)], 0))

RECURSIVE read_loop(_, _, _, _, _)
read_loop(s, tag, bnum, blks, block) ==
    IF block >= blks THEN Return(s, 0)
    ELSE Then(read_block(s, tag, bnum + block), LAMBDA r :
           IF Failed(r) THEN Return(r, -1)
           ELSE read_loop(r, tag, bnum, blks, block + 1))

\* tagline_read
tagline_read(s, tag, bnum, blks) ==
    IF blks > 1 THEN read_loop(s, tag, bnum, blks, 0)
    ELSE read_block(s, tag, bnum)

\* add_new_tag: the new node goes behind the last node reached from
\* head_tag and is numbered by the nodes walked; on a freed list the walk
\* reads freed memory
add_new_tag(s) ==
    IF s.stale < 0 /\ s.head_tag # << >> THEN Crash(s)
    ELSE Then(IF s.stale > 0 THEN SubSeq(s.head_tag, 1, s.stale) ELSE s.head_tag,
           LAMBDA list :
             Return([s EXCEPT !.head_tag = Append(list, [tagline |-> Len(list),
                                                         max_start_allowed |-> 0,
                                                         blocks_in_tagline |-> 0,
                                                         blocks |-> << >>]),
                              !.taglines_in_use = @ + 1,
                              !.stale = 0], 0))

\* a format loop that formats the disks that remain after a FORMAT failed
RECURSIVE format_loop_heedless(_, _)
format_loop_heedless(s, disk) ==
    IF disk >= RAID_DISKS THEN s
    ELSE LET format == Request("FORMAT", 0, disk, 0) IN
         Then(client_raid_bus_request(s, format, Blank), LAMBDA s1 :
           IF check_response(format, s1.resp) # 0
           THEN format_loop_heedless(Return(s1, -1), disk + 1)
           ELSE format_loop_heedless(s1, disk + 1))

RECURSIVE format_loop(_, _)
format_loop(s, disk) ==
    IF disk >= RAID_DISKS THEN Return(s, 0)
    ELSE LET format == Request("FORMAT", 0, disk, 0) IN
         Then(client_raid_bus_request(s, format, Blank), LAMBDA s1 :
           IF check_response(format, s1.resp) # 0 THEN Return(s1, -1)
           ELSE format_loop(s1, disk + 1))

RECURSIVE tag_loop(_, _, _)
tag_loop(s, tag, maxlines) ==
    IF tag >= maxlines THEN Return(s, 0)
    ELSE Then(add_new_tag(s), LAMBDA s1 :
           IF Failed(s1) THEN Return(s1, -1) ELSE tag_loop(s1, tag + 1, maxlines))

\* init_raid_cache
init_raid_cache(s) ==
    Return([s EXCEPT !.capacity = 0, !.back_ptr = NULL, !.front_ptr = NULL], 0)

\* tagline_driver_init
tagline_driver_init(s, maxlines) ==
    LET init == Request("INIT", 0, RAID_DISKS, 0) IN
    Then(client_raid_bus_request(init_raid_cache(s), init, Blank), LAMBDA s2 :
      IF check_response(init, s2.resp) # 0 THEN Return(s2, -1) ELSE
      Then(format_loop(s2, 0), LAMBDA s3 :
        IF Failed(s3) THEN Return(s3, -1) ELSE tag_loop(s3, 0, maxlines)))

\* a rebuild that reads the alive address from the bus whatever the cache holds
recover_side_uncached(s, alive, lost) ==
    Then(get_raid_cache(s, alive[1], alive[2]), LAMBDA s1 :
      Then(client_raid_bus_request(s1, Request("READ", 1, alive[1], alive[2]), Blank),
        LAMBDA s2 :
          IF s2.resp.status # 0 THEN Return(s2, -1)
          ELSE Then(put_raid_cache(s2, lost[1], lost[2], s2.rbuf),
                 LAMBDA s3 : Status(s3))))

\* raid_disk_signal, the rebuild of one side: the bytes of the alive address,
\* from the cache or else from the bus, are put under the lost address
recover_side(s, alive, lost) ==
    Then(get_raid_cache(s, alive[1], alive[2]), LAMBDA s1 :
      IF s1.ret = NOBUF THEN
        Then(client_raid_bus_request(s1, Request("READ", 1, alive[1], alive[2]), Blank),
          LAMBDA s2 :
            IF s2.resp.status # 0 THEN Return(s2, -1)
            ELSE Then(put_raid_cache(s2, lost[1], lost[2], s2.rbuf),
                   LAMBDA s3 : Status(s3)))
      ELSE Then(put_raid_cache(s1, lost[1], lost[2], s1.ret), LAMBDA s3 : Status(s3)))

\* raid_disk_signal, one block node of the walk over the tags for a failed disk
recover_block(s, cb, disk) ==
    IF cb.RAID_disk = disk THEN
        recover_side(s, <<cb.backup_disk, cb.backup_block>>, <<cb.RAID_disk, cb.RAID_block>>)
    ELSE IF cb.backup_disk = disk THEN
        recover_side(s, <<cb.RAID_disk, cb.RAID_block>>, <<cb.backup_disk, cb.backup_block>>)
    ELSE Return(s, 0)

\* the block nodes in the order the two nested loops visit them
RECURSIVE AllBlocks(_, _)
AllBlocks(tags, i) ==
    IF i > Len(tags) THEN << >> ELSE tags[i].blocks \o AllBlocks(tags, i + 1)

\* a walk over the block nodes that goes on after a rebuild failed
RECURSIVE recover_loop_heedless(_, _, _, _)
recover_loop_heedless(s, cbs, i, disk) ==
    IF i > Len(cbs) THEN Return(s, 0)
    ELSE Then(recover_block(s, cbs[i], disk), LAMBDA r :
           IF r.crash THEN r
           ELSE recover_loop_heedless([r EXCEPT !.ret = 0], cbs, i + 1, disk))

RECURSIVE recover_loop(_, _, _, _)
recover_loop(s, cbs, i, disk) ==
    IF i > Len(cbs) THEN Return(s, 0)
    ELSE Then(recover_block(s, cbs[i], disk), LAMBDA r :
           IF Failed(r) THEN Return(r, -1) ELSE recover_loop(r, cbs, i + 1, disk))

RECURSIVE signal_loop(_, _, _)
signal_loop(s, cbs, disk) ==
    IF disk >= RAID_DISKS THEN Return(s, 0)
    ELSE
      Then(client_raid_bus_request(s, Request("STATUS", 0, disk, 0), Blank), LAMBDA s1 :
        IF s1.resp.status # 0 THEN Return(s1, -1)
        ELSE IF s1.resp.blockid = 2 THEN
          Then(client_raid_bus_request(s1, Request("FORMAT", 0, disk, 0), Blank),
            LAMBDA s2 :
              IF s2.resp.status # 0 THEN Return(s2, -1)
              ELSE Then(recover_loop(s2, cbs, 1, disk), LAMBDA s3 :
                     IF Failed(s3) THEN Return(s3, -1)
                     ELSE signal_loop(s3, cbs, disk + 1)))
        ELSE signal_loop(s1, cbs, disk + 1))

\* raid_disk_signal
raid_disk_signal(s) ==
    Then(AllBlocks(s.head_tag, 1), LAMBDA cbs : signal_loop(s, cbs, 0))

\* a close_raid_cache that writes the least recently used entry to the bus
\* before it frees the nodes
close_raid_cache_flushing(s) ==
    Then(Log(s, [ev |-> "close_cache"]), LAMBDA s1 :
      IF s1.front_ptr = NULL THEN Return([s1 EXCEPT !.qnode = << >>], 0)
      ELSE Then(evict_lru(s1), LAMBDA s2 :
             IF s2.crash THEN s2 ELSE Return([s2 EXCEPT !.qnode = << >>], 0)))

\* close_raid_cache: every hash node and queue node is freed; no bus request
close_raid_cache(s) ==
    Then(Log(s, [ev |-> "close_cache"]), LAMBDA s1 :
      Return([s1 EXCEPT !.qnode = << >>], 0))

\* free_tag_linked_list reads tag->next_tagline of the head, and
\* free_block_linked_list reads block->next_block of every block_0
free_tag_linked_list(s) ==
    IF s.head_tag = << >> THEN Crash(s)
    ELSE IF \E i \in 1 .. Len(s.head_tag) : s.head_tag[i].blocks = << >> THEN Crash(s)
    ELSE s

\* tagline_close
tagline_close(s) ==
    LET close == Request("CLOSE", 0, 0, 0) IN
    Then(close_raid_cache(s), LAMBDA s1 :
      IF Failed(s1) THEN Return(s1, -1) ELSE
      Then(client_raid_bus_request(s1, close, Blank), LAMBDA s2 :
        IF check_response(close, s2.resp) # 0 THEN Return(s2, -1)
        ELSE Return(free_tag_linked_list(s2), 0)))

\* ------------------------------------------------------------ actions
Init ==
    /\ head_tag = << >>
    /\ taglines_in_use = 0
    /\ current_disk = 0
    /\ current_block = 0
    /\ hashtable = {}
    /\ qnode = << >>
    /\ cache_queue = [capacity |-> 0, back_ptr |-> NULL, front_ptr |-> NULL]
    /\ raid = [a \in Addr |-> Blank]
    /\ phase = "start"
    /\ last = [op |-> "none", tag |-> 0, bnum |-> 0, blks |-> 0, bufs |-> << >>,
               ret |-> 0, out |-> << >>, pre_max |-> 0, fault |-> FALSE,
               allocs |-> 0, handed |-> 0, failed |-> {}, plain |-> TRUE,
               recovered |-> 0 - 1, healthy |-> TRUE, lastput |-> << >>]
    /\ trace = << >>
    /\ shadow = << >>
    /\ nops = 0

\* the program state after a call that ended in s
Install(s) ==
    /\ head_tag' = s.head_tag
    /\ taglines_in_use' = s.taglines_in_use
    /\ current_disk' = s.current_disk
    /\ current_block' = s.current_block
    /\ hashtable' = s.hashtable
    /\ qnode' = s.qnode
    /\ cache_queue' = [capacity |-> s.capacity, back_ptr |-> s.back_ptr,
                       front_ptr |-> s.front_ptr]
    /\ raid' = s.raid
    /\ trace' = s.trace
    /\ nops' = nops + 1

\* what the call returned: 0, -1, or nothing when it crashed
RetOf(s) == IF s.crash THEN "crash" ELSE IF s.ret = 0 THEN "ok" ELSE "err"

Faulted(s) == \E i \in 1 .. Len(s.trace) :
                 s.trace[i].ev = "bus" /\ s.trace[i].status = 1

\* every call so far was the init, or a read or write, and returned 0
PlainNow ==
    \/ last.op = "none"
    \/ last.plain /\ last.op \in {"init", "read", "write"} /\ last.ret = "ok"

\* the disk rebuilt by the latest raid_disk_signal, when that call returned 0
\* with this one disk failed and only reads and writes that returned 0
\* followed it; -1 otherwise
RecoveredBy(s, op) ==
    IF op = "signal"
    THEN IF RetOf(s) = "ok" /\ Cardinality(s.failed) = 1
         THEN CHOOSE d \in s.failed : TRUE ELSE 0 - 1
    ELSE IF op \in {"read", "write"} /\ RetOf(s) = "ok" THEN last.recovered
    ELSE 0 - 1

\* address -> the bytes of the latest put_raid_cache under it, after the
\* events i .. Len(tr) of a call's trace
RECURSIVE PutsOf(_, _, _)
PutsOf(tr, i, f) ==
    IF i > Len(tr) THEN f
    ELSE IF tr[i].ev = "put"
         THEN PutsOf(tr, i + 1, (<<tr[i].disk, tr[i].block>> :> tr[i].buf) @@ f)
         ELSE PutsOf(tr, i + 1, f)

LastOf(s, op, tag, bnum, blks, bufs) ==
    [op |-> op, tag |-> tag, bnum |-> bnum, blks |-> blks, bufs |-> bufs,
     ret |-> RetOf(s), out |-> s.out,
     pre_max |-> IF tag < taglines_in_use THEN head_tag[tag + 1].max_start_allowed
                 ELSE 0 - 1,
     fault |-> Faulted(s), allocs |-> s.allocs, handed |-> last.handed + s.allocs,
     failed |-> s.failed, plain |-> PlainNow, recovered |-> RecoveredBy(s, op),
     healthy |-> last.healthy /\ s.failed = {},
     lastput |-> PutsOf(s.trace, 1, last.lastput)]

\* the bus faults of one call: none, or status 1 on its n-th request
NoFaults == { {} }
OneFault == { {} } \cup { {n} : n \in 1 .. MaxFaultAt }
\* none, or on its n-th request (written -n) a response with status 0 whose
\* number_of_blocks is not the request's
OneGarble == { {} } \cup { {0 - n} : n \in 1 .. MaxFaultAt }

a0 == <<0, 0>>

\* What a write may find in memory it never initialised: behind the null
\* pointer of a tag that does not exist, and in backup_disk and backup_block
\* of a fresh block node.  A write with a valid tag that meets no bus fault
\* assigns the backup before it returns, so one value stands for all there.
Garbage(tag, faults) ==
    IF tag >= taglines_in_use
    THEN { [trap |-> TRUE, max_start |-> 0, addr |-> a0] } \cup
         { [trap |-> FALSE, max_start |-> m, addr |-> a0] : m \in 0 .. 1 }
    ELSE { [trap |-> TRUE, max_start |-> 0, addr |-> a] :
             a \in IF faults = {} THEN {a0} ELSE Addr }

Bnums(tag) ==
    IF tag < taglines_in_use THEN 0 .. head_tag[tag + 1].max_start_allowed + 1
    ELSE 0 .. 1

Len1(blks) == IF blks > 1 THEN blks ELSE 1

\* What add_new_tag may find behind head_tag: after a tagline_close that
\* returned 0 every node is freed and head_tag still points at the first.
Stale ==
    IF phase = "closed" THEN {0 - 1} \cup (1 .. Len(head_tag)) ELSE {0}

\* tagline_driver_init, as the first call or after a tagline_close that
\* returned 0.  The calls that follow a second initialisation work on the
\* freed nodes and are left out.
DriverInit(F) ==
    /\ phase \in {"start", "closed"}
    /\ nops < MaxOps
    /\ \E maxlines \in 0 .. MaxLines, faults \in F, stale \in Stale :
       \E s0 \in {[Cur(faults, {}) EXCEPT !.stale = stale]} :
       \E s \in {tagline_driver_init(s0, maxlines)} :
         /\ Install(s)
         /\ phase' = IF s.crash THEN "crashed"
                     ELSE IF s.ret # 0 THEN "failed"
                     ELSE IF phase = "start" THEN "open" ELSE "reopened"
         /\ last' = LastOf(s, "init", maxlines, 0, 0, << >>)
         /\ UNCHANGED shadow

\* the block (tag, bnum + i) keeps the payload of a write that returned 0,
\* and has no known payload after a write that did not
Shadow(s, tag, bnum, blks, bufs) ==
    [k \in DOMAIN shadow \cup { <<tag, bnum + i>> : i \in 0 .. Len1(blks) - 1 } |->
        IF k[1] = tag /\ k[2] >= bnum /\ k[2] < bnum + Len1(blks)
        THEN IF RetOf(s) = "ok" THEN bufs[k[2] - bnum + 1] ELSE 0 - 1
        ELSE shadow[k]]

Write(F, B) ==
    /\ phase = "open"
    /\ nops < MaxOps
    /\ \E tag \in 0 .. MaxLines, blks \in B, faults \in F :
       \E bnum \in Bnums(tag), bufs \in [1 .. Len1(blks) -> Values],
          g \in Garbage(tag, faults) :
       \E s0 \in {Cur(faults, {})} :
       \E s \in {tagline_write(s0, tag, bnum, blks, bufs, g)} :
         /\ Install(s)
         /\ phase' = IF s.crash THEN "crashed" ELSE phase
         /\ last' = LastOf(s, "write", tag, bnum, blks, bufs)
         /\ shadow' = Shadow(s, tag, bnum, blks, bufs)

Read(F, B) ==
    /\ phase = "open"
    /\ nops < MaxOps
    /\ \E tag \in 0 .. MaxLines, blks \in B, faults \in F :
       \E bnum \in Bnums(tag) :
       \E s0 \in {Cur(faults, {})} : \E s \in {tagline_read(s0, tag, bnum, blks)} :
         /\ Install(s)
         /\ phase' = IF s.crash THEN "crashed" ELSE phase
         /\ last' = LastOf(s, "read", tag, bnum, blks, << >>)
         /\ UNCHANGED shadow

\* raid_disk_signal with the disks of failed reporting block_id 2
Signal(F, D) ==
    /\ phase = "open"
    /\ nops < MaxOps
    /\ \E failed \in D, faults \in F :
       \E s0 \in {Cur(faults, failed)} : \E s \in {raid_disk_signal(s0)} :
         /\ Install(s)
         /\ phase' = IF s.crash THEN "crashed" ELSE phase
         /\ last' = LastOf(s, "signal", 0, 0, 0, << >>)
         /\ UNCHANGED shadow

Close(F) ==
    /\ phase = "open"
    /\ nops < MaxOps
    /\ \E faults \in F :
       \E s0 \in {Cur(faults, {})} : \E s \in {tagline_close(s0)} :
         /\ Install(s)
         /\ phase' = IF s.crash THEN "crashed" ELSE IF s.ret = 0 THEN "closed" ELSE phase
         /\ last' = LastOf(s, "close", 0, 0, 0, << >>)
         /\ UNCHANGED shadow

OneFailed == { {} } \cup { {d} : d \in Disks }
OneBlock == {1}

\* the driver over a bus that may answer any one request of a call with status 1
Next ==
    \/ DriverInit(OneFault)
    \/ Write(OneFault, OneBlock)
    \/ Read(OneFault, OneBlock)
    \/ Signal(OneFault, OneFailed)
    \/ Close(OneFault)

Spec == Init /\ [][Next]_vars

\* the driver over a bus that never reports an error
NextReliable ==
    \/ DriverInit(NoFaults)
    \/ Write(NoFaults, OneBlock)
    \/ Read(NoFaults, OneBlock)
    \/ Signal(NoFaults, OneFailed)
    \/ Close(NoFaults)

SpecReliable == Init /\ [][NextReliable]_vars

\* the driver over a bus that never reports an error, with any set of disks
\* reporting a failure to raid_disk_signal
AnyFailed == SUBSET Disks

NextFailures ==
    \/ DriverInit(NoFaults)
    \/ Write(NoFaults, OneBlock)
    \/ Read(NoFaults, OneBlock)
    \/ Signal(NoFaults, AnyFailed)
    \/ Close(NoFaults)

SpecFailures == Init /\ [][NextFailures]_vars

\* the driver over a bus that carries out every request and may answer any
\* one request of a call with a response that does not echo it
NextGarbled ==
    \/ DriverInit(OneGarble)
    \/ Write(OneGarble, OneBlock)
    \/ Read(OneGarble, OneBlock)
    \/ Signal(OneGarble, OneFailed)
    \/ Close(OneGarble)

SpecGarbled == Init /\ [][NextGarbled]_vars

\* ------------------------------------------------------------ the cache alone
\* The cache driven through its own interface: put_raid_cache and
\* get_raid_cache on any key, the bus answering an eviction with status 0 or 1.
\* (1, 0) and (0, 1808) fall into the same bucket of the hashtable.
CacheKeys == { <<0, 0>>, <<0, 1>>, <<1, 0>>, <<0, 1808>> }

\* the live entries: key -> buffer
Live == [k \in DOMAIN qnode |-> qnode[k].value_buf]

\* The last cache call: its arguments, its result, the live entries before it
\* and every cache call so far (use: a put, or a get that hit).
CacheLastOf(s, op, k, buf) ==
    [op |-> op, key |-> k, buf |-> buf, ret |-> RetOf(s), got |-> s.ret,
     hit |-> k \in DOMAIN qnode, fault |-> Faulted(s), pre |-> Live,
     hist |-> Append(last.hist,
                     [key |-> k, use |-> op = "put" \/ k \in DOMAIN qnode])]

InitCache ==
    /\ head_tag = << >>
    /\ taglines_in_use = 0
    /\ current_disk = 0
    /\ current_block = 0
    /\ hashtable = {}
    /\ qnode = << >>
    /\ cache_queue = [capacity |-> 0, back_ptr |-> NULL, front_ptr |-> NULL]
    /\ raid = [a \in CacheKeys |-> Blank]
    /\ phase = "start"
    /\ last = [op |-> "none", key |-> NULL, buf |-> Blank, ret |-> "ok", got |-> 0,
               hit |-> FALSE, fault |-> FALSE, pre |-> << >>, hist |-> << >>]
    /\ trace = << >>
    /\ shadow = << >>
    /\ nops = 0

\* init_raid_cache(TAGLINE_CACHE_SIZE)
CacheInit ==
    /\ phase = "start"
    /\ \E s0 \in {Cur({}, {})} : \E s \in {init_raid_cache(s0)} :
         /\ Install(s)
         /\ phase' = "cache"
         /\ last' = [last EXCEPT !.op = "init"]
         /\ UNCHANGED shadow

CachePut(F) ==
    /\ phase = "cache"
    /\ nops < MaxCacheOps
    /\ \E k \in CacheKeys, buf \in Values, faults \in F :
       \E s0 \in {Cur(faults, {})} : \E s \in {put_raid_cache(s0, k[1], k[2], buf)} :
         /\ Install(s)
         /\ phase' = IF s.crash THEN "crashed" ELSE phase
         /\ last' = CacheLastOf(s, "put", k, buf)
         /\ UNCHANGED shadow

CacheGet ==
    /\ phase = "cache"
    /\ nops < MaxCacheOps
    /\ \E k \in CacheKeys :
       \E s0 \in {Cur({}, {})} : \E s \in {get_raid_cache(s0, k[1], k[2])} :
         /\ Install(s)
         /\ phase' = IF s.crash THEN "crashed" ELSE phase
         /\ last' = CacheLastOf(s, "get", k, Blank)
         /\ UNCHANGED shadow

NextCache ==
    \/ CacheInit
    \/ CachePut(OneFault)
    \/ CacheGet

SpecCache == InitCache /\ [][NextCache]_vars

\* the driver over a bus that never reports an error, with calls for
\* 0 .. MaxBlks blocks
ManyBlocks == 0 .. MaxBlks

NextBlocks ==
    \/ DriverInit(NoFaults)
    \/ nops < MaxBlockOps /\ Write(NoFaults, ManyBlocks)
    \/ nops < MaxBlockOps /\ Read(NoFaults, ManyBlocks)

SpecBlocks == Init /\ [][NextBlocks]_vars

\* ------------------------------------------------------------ the opcode
\* generate_RAIDOpCode and decode_RAIDOpCode on their own.  A RAIDOpCode is
\* 64 bits, written as the sequence of its bits from the least significant;
\* a block_id is written as its two 16-bit halves <<high, low>>.
OpBits == 1 .. 64

\* the w low bits of the number v
Bits(v, w) == [i \in 1 .. w |-> (v \div (2 ^ (i - 1))) % 2]
\* a field widened to the 64 bits of a RAIDOpCode
Widen(b) == [i \in OpBits |-> IF i <= Len(b) THEN b[i] ELSE 0]
\* the number held in the w low bits of x: x & (2^w - 1)
RECURSIVE Low(_, _)
Low(x, w) == IF w = 0 THEN 0 ELSE x[w] * (2 ^ (w - 1)) + Low(x, w - 1)
\* x << k and x >> k
ShiftLeft(x, k) == [i \in OpBits |-> IF i <= k THEN 0 ELSE x[i - k]]
ShiftRight(x, k) == [i \in OpBits |-> IF i + k <= 64 THEN x[i + k] ELSE 0]
\* x + y, modulo 2^64
RECURSIVE AddFrom(_, _, _, _)
AddFrom(x, y, i, carry) ==
    IF i > 64 THEN << >>
    ELSE <<(x[i] + y[i] + carry) % 2>> \o
         AddFrom(x, y, i + 1, (x[i] + y[i] + carry) \div 2)
Plus(x, y) == AddFrom(x, y, 1, 0)

generate_RAIDOpCode(opcode) ==
    Then(Widen(Bits(opcode.request_type, 8)), LAMBDA g1 :
    Then(Plus(ShiftLeft(g1, 8), Widen(Bits(opcode.number_of_blocks, 8))), LAMBDA g2 :
    Then(Plus(ShiftLeft(g2, 8), Widen(Bits(opcode.disk_number, 8))), LAMBDA g3 :
    Then(Plus(ShiftLeft(g3, 7), Widen(Bits(opcode.reserved, 8))), LAMBDA g4 :
    Then(Plus(ShiftLeft(g4, 1), Widen(Bits(opcode.status, 8))), LAMBDA g5 :
      Plus(ShiftLeft(g5, 32),
           Widen(Bits(opcode.blockid[2], 16) \o Bits(opcode.blockid[1], 16))))))))

decode_RAIDOpCode(opcode) ==
    Then(ShiftRight(opcode, 32), LAMBDA d1 :
    Then(ShiftRight(d1, 1), LAMBDA d2 :
    Then(ShiftRight(d2, 7), LAMBDA d3 :
    Then(ShiftRight(d3, 8), LAMBDA d4 :
    Then(ShiftRight(d4, 8), LAMBDA d5 :
      [blockid |-> <<Low(ShiftRight(opcode, 16), 16), Low(opcode, 16)>>,
       status |-> Low(d1, 1),
       reserved |-> Low(d2, 6),
       disk_number |-> Low(d3, 8),
       number_of_blocks |-> Low(d4, 8),
       request_type |-> Low(d5, 8)])))))

\* requests with every field inside its range of the opcode layout
CodecRequests ==
    [request_type : {0, 5, 255}, number_of_blocks : {0, 1, 255},
     disk_number : {0, 8, 255}, reserved : {0, 1, 63, 64, 127}, status : {0, 1},
     blockid : { <<0, 0>>, <<0, 4095>>, <<32768, 0>>, <<65535, 65535>> }]

InitCodec ==
    /\ head_tag = << >>
    /\ taglines_in_use = 0
    /\ current_disk = 0
    /\ current_block = 0
    /\ hashtable = {}
    /\ qnode = << >>
    /\ cache_queue = [capacity |-> 0, back_ptr |-> NULL, front_ptr |-> NULL]
    /\ raid = [a \in Addr |-> Blank]
    /\ phase = "codec"
    /\ \E r \in CodecRequests : last = [op |-> "request", request |-> r]
    /\ trace = << >>
    /\ shadow = << >>
    /\ nops = 0

Encode ==
    /\ phase = "codec"
    /\ last.op = "request"
    /\ last' = [op |-> "opcode", request |-> last.request,
                opcode |-> generate_RAIDOpCode(last.request)]
    /\ UNCHANGED << head_tag, taglines_in_use, current_disk, current_block, hashtable,
                    qnode, cache_queue, raid, phase, trace, shadow, nops >>

Decode ==
    /\ phase = "codec"
    /\ last.op = "opcode"
    /\ last' = [op |-> "response", request |-> last.request, opcode |-> last.opcode,
                response |-> decode_RAIDOpCode(last.opcode)]
    /\ UNCHANGED << head_tag, taglines_in_use, current_disk, current_block, hashtable,
                    qnode, cache_queue, raid, phase, trace, shadow, nops >>

NextCodec ==
    \/ Encode
    \/ Decode

SpecCodec == InitCodec /\ [][NextCodec]_vars

\* ------------------------------------------------------------ properties
Running == phase \in {"open", "closed"}
Records == UNION { { <<t, i>> : i \in 1 .. Len(head_tag[t].blocks) } :
                   t \in 1 .. Len(head_tag) }
Rec(r) == head_tag[r[1]].blocks[r[2]]
\* the payload the last write that returned 0 gave to (tag, bnum), if any
Written(tag, bnum) ==
    IF <<tag, bnum>> \in DOMAIN shadow /\ shadow[<<tag, bnum>>] \in Values
    THEN shadow[<<tag, bnum>>] ELSE NOBUF
\* what tagline_read(tag, bnum, 1) over a reliable bus would do now
ReadNow(tag, bnum) == tagline_read(Cur({}, {}), tag, bnum, 1)
ReadsBack(tag, bnum, buf) ==
    \E r \in {ReadNow(tag, bnum)} : ~Failed(r) /\ r.out = <<buf>>
\* the addresses handed out before the last call
HandedBefore == last.handed - last.allocs
Appending == last.op = "write" /\ last.tag < taglines_in_use /\ last.bnum = last.pre_max
Overwriting == last.op = "write" /\ last.tag < taglines_in_use /\ last.bnum < last.pre_max

\* C1: over a bus that never reports an error, and with only reads and writes
\* that returned 0 since the init, a tagline_read(t, b, 1) of a block of an
\* existing tagline t that a tagline_write(t, b, 1, X) wrote last returns 0
\* and delivers X.
C1_ReadAfterWrite ==
    (/\ last.op = "read"
     /\ last.tag < taglines_in_use
     /\ last.plain
     /\ Written(last.tag, last.bnum) # NOBUF)
    => (last.ret = "ok" /\ last.out = <<Written(last.tag, last.bnum)>>)

\* C2: after raid_disk_signal returned 0 with the single disk d failed, and
\* through the reads and writes that return 0 after it, every block record
\* with its primary or its mirror on d reads back the payload of the last
\* write of that block that returned 0.
C2_RecoverySound ==
    (Running /\ last.recovered \in Disks) =>
        \A r \in Records :
            (/\ last.recovered \in {Rec(r).RAID_disk, Rec(r).backup_disk}
             /\ Written(r[1] - 1, r[2] - 1) # NOBUF)
            => ReadsBack(r[1] - 1, r[2] - 1, Written(r[1] - 1, r[2] - 1))

\* C3: in every state between two driver calls, every block record of every
\* tagline has its primary and its mirror on different disks.
C3_MirrorDisjoint ==
    Running => \A r \in Records : Rec(r).RAID_disk # Rec(r).backup_disk

\* C4: a tagline_write with a valid tag and bnum above the tagline's
\* max_start_allowed returns an error.
C4_HoleRejected ==
    (last.op = "write" /\ last.tag < taglines_in_use /\ last.bnum > last.pre_max)
    => last.ret = "err"

\* C5: a tagline_write with tag >= maxlines returns an error, and no address
\* was allocated, no cache call and no bus request made.
C5_WriteBadTag ==
    (last.op = "write" /\ last.tag >= taglines_in_use)
    => (last.ret = "err" /\ last.allocs = 0 /\ trace = << >>)

\* C6: a tagline_read with tag >= maxlines, or with bnum at or above the
\* tagline's max_start_allowed, returns an error, delivers nothing, and makes
\* no cache call and no bus request.
C6_ReadInvalid ==
    (/\ last.op = "read"
     /\ \/ last.tag >= taglines_in_use
        \/ last.bnum >= last.pre_max)
    => (last.ret = "err" /\ trace = << >> /\ last.out = << >>)

\* a read past the end of a tagline that has blocks was refused
C6_Witness ==
    /\ last.op = "read"
    /\ last.tag < taglines_in_use
    /\ last.pre_max > 0
    /\ last.bnum >= last.pre_max
    /\ last.ret = "err"
    /\ cache_queue.capacity > 0

\* C7: once RAID_DISKS * RAID_DISKBLOCKS addresses have been handed out, an
\* appending tagline_write returns an error and allocates nothing.
C7_Exhaustion ==
    (Appending /\ HandedBefore >= RAID_DISKS * RAID_DISKBLOCKS)
    => (last.ret = "err" /\ last.allocs = 0)

\* C8: every primary address and every assigned mirror address in the
\* directory, and every key of the cache, has its disk in 0 .. RAID_DISKS - 1
\* and its block in 0 .. RAID_DISKBLOCKS - 1.
C8_AddressesInRange ==
    /\ \A r \in Records :
          /\ Rec(r).RAID_disk \in Disks
          /\ Rec(r).RAID_block \in 0 .. RAID_DISKBLOCKS - 1
          /\ Rec(r).backup_set =>
                /\ Rec(r).backup_disk \in Disks
                /\ Rec(r).backup_block \in 0 .. RAID_DISKBLOCKS - 1
    /\ \A k \in hashtable : k[1] \in Disks /\ k[2] \in 0 .. RAID_DISKBLOCKS - 1

\* C9: in every state and for every tagline, max_start_allowed and
\* blocks_in_tagline both equal the length of the block list, and the i-th
\* record of the list carries the logical index i - 1.
C9_AppendContiguity ==
    \A t \in 1 .. Len(head_tag) :
        /\ head_tag[t].max_start_allowed = Len(head_tag[t].blocks)
        /\ head_tag[t].blocks_in_tagline = Len(head_tag[t].blocks)
        /\ \A i \in 1 .. Len(head_tag[t].blocks) : head_tag[t].blocks[i].block = i - 1

\* an appending write returned an error after its record was linked, in a
\* tagline that had a record already
C9_Witness ==
    /\ Appending
    /\ last.ret = "err"
    /\ last.pre_max > 0
    /\ Len(head_tag[last.tag + 1].blocks) = last.pre_max + 1

\* the primary and mirror address of every block record, and every
\* tagline's max_start_allowed
Placements(tags) ==
    [t \in 1 .. Len(tags) |->
        [max_start_allowed |-> tags[t].max_start_allowed,
         addrs |-> [i \in 1 .. Len(tags[t].blocks) |->
                      << tags[t].blocks[i].RAID_disk, tags[t].blocks[i].RAID_block,
                         tags[t].blocks[i].backup_disk, tags[t].blocks[i].backup_block >>]]]

\* C10: a tagline_write to a block below max_start_allowed, a tagline_read
\* and a raid_disk_signal leave every record's primary and mirror address,
\* every max_start_allowed and the allocation cursor as they were.
C10_PlacementsImmutable ==
    [][ (\/ last'.op \in {"read", "signal"}
         \/ /\ last'.op = "write"
            /\ last'.tag < taglines_in_use
            /\ last'.bnum < last'.pre_max)
        => /\ Placements(head_tag') = Placements(head_tag)
           /\ current_disk' = current_disk
           /\ current_block' = current_block ]_vars

\* an overwrite that had to evict returned 0
C10_Witness ==
    /\ Overwriting
    /\ last.ret = "ok"
    /\ \E i \in 1 .. Len(trace) : trace[i].ev = "bus" /\ trace[i].type = "WRITE"

\* ------------------------------------------------------------ the cache
\* the bus WRITE requests of the last call
BusWrites == SelectSeq(trace, LAMBDA e : e.ev = "bus" /\ e.type = "WRITE")
\* the cache calls before the last one
PreHist == SubSeq(last.hist, 1, Len(last.hist) - 1)
\* the latest call in h that used key k; 0 when there is none
LastUse(h, k) ==
    LET is == { i \in 1 .. Len(h) : h[i].key = k /\ h[i].use }
    IN  IF is = {} THEN 0 ELSE CHOOSE i \in is : \A j \in is : j <= i
\* the entry that was least recently put or hit when the last call began
LruBefore ==
    CHOOSE k \in DOMAIN last.pre :
        \A j \in DOMAIN last.pre : LastUse(PreHist, k) <= LastUse(PreHist, j)
\* the calls i + 1 .. Len(h) of h are on pairwise distinct keys other than k
DistinctOthers(h, i, k) ==
    /\ \A j \in i + 1 .. Len(h) : h[j].key # k
    /\ \A j1, j2 \in i + 1 .. Len(h) : j1 # j2 => h[j1].key # h[j2].key

\* C11: between two cache calls, whatever the last one returned, the cache
\* holds at most TAGLINE_CACHE_SIZE live entries.
C11_CapacityBound ==
    phase = "cache" => Cardinality(DOMAIN qnode) <= TAGLINE_CACHE_SIZE

\* C12: a key that was put, or hit by a get, is still in the cache after the
\* next TAGLINE_CACHE_SIZE - 1 cache calls (or fewer), when these are on
\* pairwise distinct keys other than it.
C12_LruOrder ==
    phase = "cache" =>
        \A i \in 1 .. Len(last.hist) - 1 :
            (/\ last.hist[i].use
             /\ Len(last.hist) - i <= TAGLINE_CACHE_SIZE - 1
             /\ DistinctOthers(last.hist, i, last.hist[i].key))
            => last.hist[i].key \in DOMAIN qnode

\* C13: right after a get_raid_cache that returned a buffer, its key is at
\* the back of the queue, the last entry an eviction would pick.
C13_GetPromotes ==
    (phase = "cache" /\ last.op = "get" /\ last.hit)
    => cache_queue.back_ptr = last.key

\* C14: a put of a key that is not in the cache, into a cache that holds
\* TAGLINE_CACHE_SIZE entries, issues exactly one bus WRITE, to the address of
\* the least recently used entry and with that entry's buffer; when the WRITE
\* has status 0 that entry is gone from the cache and the new key is in it.
C14_EvictionWritesThrough ==
    (/\ last.op = "put"
     /\ ~last.hit
     /\ Cardinality(DOMAIN last.pre) = TAGLINE_CACHE_SIZE)
    => /\ Len(BusWrites) = 1
       /\ <<BusWrites[1].disk, BusWrites[1].block>> = LruBefore
       /\ BusWrites[1].buf = last.pre[LruBefore]
       /\ BusWrites[1].status = 0 =>
             /\ LruBefore \notin DOMAIN qnode
             /\ last.key \in DOMAIN qnode

\* C16: a put whose eviction WRITE the bus answered with status 1 returns an
\* error, and every entry that was in the cache before the put, the least
\* recently used one among them, is still there with the buffer it had.
C16_FailedEvictionKeeps ==
    (last.op = "put" /\ last.fault)
    => /\ last.ret = "err"
       /\ last.pre # << >>
       /\ \A k \in DOMAIN last.pre :
             k \in DOMAIN qnode /\ qnode[k].value_buf = last.pre[k]

\* a put into a full cache met a bus fault while entries were in the cache
C16_Witness ==
    /\ last.op = "put"
    /\ last.fault
    /\ Cardinality(DOMAIN last.pre) = TAGLINE_CACHE_SIZE
    /\ cache_queue.front_ptr \in DOMAIN last.pre

\* the bytes held for an address: by its cache entry when it has one, by
\* the disk block otherwise
Held(a) == IF a \in DOMAIN qnode THEN qnode[a].value_buf ELSE raid[a]
Primary(r) == <<Rec(r).RAID_disk, Rec(r).RAID_block>>
Mirror(r) == <<Rec(r).backup_disk, Rec(r).backup_block>>

\* C15: over a bus that never reports an error and while no disk has failed,
\* for every primary and mirror address of the directory the bytes last put
\* under the address are held by its cache entry when it has one and by the
\* disk block otherwise, and a read of the logical block delivers the bytes
\* last put under its primary.
C15_WriteBackCoherence ==
    (phase = "open" /\ last.healthy) =>
        \A r \in Records :
            /\ \A a \in {Primary(r)} \cup (IF Rec(r).backup_set THEN {Mirror(r)} ELSE {}) :
                  /\ a \in DOMAIN last.lastput
                  /\ Held(a) = last.lastput[a]
            /\ ReadsBack(r[1] - 1, r[2] - 1, last.lastput[Primary(r)])

\* a read returned 0 with bytes a write had put, fetched from the disk block
\* after the entry of the primary had been evicted
C15_Witness ==
    /\ last.op = "read"
    /\ last.ret = "ok"
    /\ last.healthy
    /\ Len(last.out) = 1
    /\ last.out[1] \in Values
    /\ \E i \in 1 .. Len(trace) :
          trace[i].ev = "bus" /\ trace[i].type = "READ" /\ trace[i].status = 0

\* the bus answered a request of the last call with status 1, or with a
\* response that differs from the request in an echoed field
Refused == \E i \in 1 .. Len(trace) :
              trace[i].ev = "bus" /\ (trace[i].status = 1 \/ ~trace[i].echo)

\* C17: a driver call in which the bus answered a request with status 1 or
\* with a response that does not echo the request's request_type,
\* number_of_blocks, disk_number and block_id returns an error.
C17_ResponsesValidated ==
    (last.op \in {"init", "read", "write", "signal", "close"} /\ Refused)
    => last.ret = "err"

\* C18: for a request with request_type, number_of_blocks and disk_number in
\* 0 .. 255, reserved in 0 .. 127, status in 0 .. 1 and any 32-bit block_id,
\* decode_RAIDOpCode of its generate_RAIDOpCode yields the same six fields.
C18_CodecRoundTrip ==
    (phase = "codec" /\ last.op = "response") => last.response = last.request

\* the bus requests of a call of tagline_driver_init, as INIT and then
\* FORMAT of the disks 0, 1, ... in turn
InitSequence(bus) ==
    \A i \in 1 .. Len(bus) :
       /\ bus[i].ev = "bus"
       /\ bus[i].type = (IF i = 1 THEN "INIT" ELSE "FORMAT")
       /\ i > 1 => bus[i].disk = i - 2

\* C19: a tagline_driver_init that returns 0 has issued INIT and then one
\* FORMAT for each disk 0 .. RAID_DISKS - 1 in ascending order; when one of
\* its responses has status 1 the call returns -1, that request is its last
\* and no tagline is created.
C19_InitSequence ==
    [][ last'.op = "init" =>
          /\ InitSequence(trace')
          /\ Len(trace') <= RAID_DISKS + 1
          /\ last'.ret = "ok" =>
                /\ Len(trace') = RAID_DISKS + 1
                /\ \A i \in 1 .. Len(trace') : trace'[i].status = 0
          /\ \A i \in 1 .. Len(trace') :
                trace'[i].status = 1 =>
                   /\ i = Len(trace')
                   /\ last'.ret = "err"
                   /\ head_tag' = head_tag
                   /\ taglines_in_use' = taglines_in_use ]_vars

\* a tagline_driver_init stopped by the FORMAT of the last disk
C19_Witness ==
    /\ last.op = "init"
    /\ last.ret = "err"
    /\ Len(trace) = RAID_DISKS + 1
    /\ trace[RAID_DISKS + 1].type = "FORMAT"
    /\ trace[RAID_DISKS + 1].status = 1
    /\ head_tag = << >>

\* C20: after every tagline_driver_init(maxlines) that returns 0, also one
\* that follows a tagline_close, the directory holds exactly the taglines
\* 0 .. maxlines - 1, none of them has a block record, and the allocation
\* cursor is (0, 0).
C20_FreshAfterInit ==
    (last.op = "init" /\ last.ret = "ok") =>
       /\ taglines_in_use = last.tag
       /\ Len(head_tag) = last.tag
       /\ \A i \in 1 .. Len(head_tag) :
             /\ head_tag[i].tagline = i - 1
             /\ head_tag[i].blocks_in_tagline = 0
             /\ head_tag[i].blocks = << >>
       /\ current_disk = 0
       /\ current_block = 0

\* C21: a tagline_close whose CLOSE request the bus answers with status 0
\* returns 0, whatever the directory holds: also when a tagline has no
\* block yet and when there is no tagline at all.
C21_CloseReturns ==
    (last.op = "close" /\ ~last.fault) => last.ret = "ok"

\* C22: tagline_close tears the cache down without writing its entries to
\* the bus: the call issues no bus WRITE and leaves the array as it was, its
\* only bus request is one CLOSE, and the cache is closed before that
\* request is sent.
C22_CloseDiscards ==
    [][ last'.op = "close" =>
          /\ Len(trace') = 2
          /\ trace'[1].ev = "close_cache"
          /\ trace'[2].ev = "bus"
          /\ trace'[2].type = "CLOSE"
          /\ raid' = raid
          /\ qnode' = << >> ]_vars

\* a tagline_close that returned 0 and dropped a cache entry whose bytes
\* the array does not hold
C22_Witness ==
    /\ last.op = "close"
    /\ last.ret = "ok"
    /\ \E a \in DOMAIN last.lastput : raid[a] # last.lastput[a]

\* C23: when tagline_close returns 0, for every logical block that a write
\* that returned 0 has written, the disk blocks at the primary and at the
\* mirror address of its record hold the bytes of the last such write.  The
\* records are those the directory held when the call began.
C23_DurableAtClose ==
    (last.op = "close" /\ last.ret = "ok") =>
        \A r \in Records :
            Written(r[1] - 1, r[2] - 1) # NOBUF =>
                /\ raid[Primary(r)] = Written(r[1] - 1, r[2] - 1)
                /\ raid[Mirror(r)] = Written(r[1] - 1, r[2] - 1)

\* the indices of the bus requests of the given type in the last call
BusAt(type) == { i \in 1 .. Len(trace) : trace[i].ev = "bus" /\ trace[i].type = type }

\* C24: in a raid_disk_signal call the STATUS requests of all RAID_DISKS
\* disks are issued before the first FORMAT request.
C24_StatusBeforeFormat ==
    last.op = "signal" =>
        \A f \in BusAt("FORMAT") :
            /\ \A i \in BusAt("STATUS") : i < f
            /\ \A d \in Disks : \E i \in BusAt("STATUS") : trace[i].disk = d

\* C25: in a raid_disk_signal call every bus request addressed to a disk
\* that did not report a failure is a STATUS or a READ.
C25_HealthyDisksOnlyRead ==
    last.op = "signal" =>
        \A i \in 1 .. Len(trace) :
            (trace[i].ev = "bus" /\ trace[i].disk \notin last.failed)
            => trace[i].type \in {"STATUS", "READ"}

\* C26: a tagline_read, tagline_write or raid_disk_signal in which the bus
\* answered a request with status 1, the WRITE of an eviction included,
\* returns an error.
C26_BusFailureAborts ==
    (last.op \in {"read", "write", "signal"} /\ last.fault) => last.ret = "err"

\* the addresses RAID_scheduler returned in the last call, in order
Allocated == SelectSeq(trace, LAMBDA e : e.ev = "alloc")

\* C27: counting the allocations from 0, the k-th allocation made while
\* fewer than RAID_DISKS * RAID_DISKBLOCKS addresses have been handed out
\* returns (k mod RAID_DISKS, k div RAID_DISKS), and the cursor then stands
\* at the address of the allocation k + 1.
C27_AllocationOrder ==
    /\ last.op = "write" =>
          \A j \in 1 .. Len(Allocated) :
              HandedBefore + j - 1 < RAID_DISKS * RAID_DISKBLOCKS =>
                  /\ Allocated[j].disk = (HandedBefore + j - 1) % RAID_DISKS
                  /\ Allocated[j].block = (HandedBefore + j - 1) \div RAID_DISKS
    /\ last.handed <= RAID_DISKS * RAID_DISKBLOCKS =>
          /\ current_disk = last.handed % RAID_DISKS
          /\ current_block = last.handed \div RAID_DISKS

\* the first appending write returned 0 with its primary at (0, 0) and its
\* mirror at (1, 0)
C27_Witness ==
    /\ last.op = "write"
    /\ last.ret = "ok"
    /\ HandedBefore = 0
    /\ Len(Allocated) = 2
    /\ <<Allocated[1].disk, Allocated[1].block>> = <<0, 0>>
    /\ <<Allocated[2].disk, Allocated[2].block>> = <<1, 0>>
    /\ last.handed = RAID_DISKS * RAID_DISKBLOCKS

\* the cache puts and the bus WRITEs of the last call for an address on d
WritesTo(d) ==
    { i \in 1 .. Len(trace) :
        /\ trace[i].disk = d
        /\ \/ trace[i].ev = "put"
           \/ trace[i].ev = "bus" /\ trace[i].type = "WRITE" }
FormatsOf(d) == { f \in BusAt("FORMAT") : trace[f].disk = d }

\* C28: in a raid_disk_signal call a disk is sent FORMAT exactly when its
\* STATUS response carried block_id 2, at most once, and before every cache
\* put and every bus WRITE of the call for an address on that disk.
C28_FormatFirst ==
    last.op = "signal" =>
        \A d \in Disks :
            /\ FormatsOf(d) # {} <=>
                  (/\ d \in last.failed
                   /\ \E i \in BusAt("STATUS") :
                         trace[i].disk = d /\ trace[i].status = 0)
            /\ Cardinality(FormatsOf(d)) <= 1
            /\ \A f \in FormatsOf(d) : \A i \in WritesTo(d) : f < i

\* the events of tr before the i-th that put key k into the cache or wrote
\* its evicted entry to the bus
Touches(tr, i, k) ==
    { j \in 1 .. i - 1 :
        /\ <<tr[j].disk, tr[j].block>> = k
        /\ \/ tr[j].ev = "put"
           \/ tr[j].ev = "bus" /\ tr[j].type = "WRITE" /\ tr[j].status = 0 }
Latest(js) == CHOOSE j \in js : \A x \in js : x <= j
\* key k has a cache entry when the i-th event of the call tr happens, q being
\* the queue nodes when the call began
LiveAt(q, tr, i, k) ==
    IF Touches(tr, i, k) = {} THEN k \in DOMAIN q
    ELSE tr[Latest(Touches(tr, i, k))].ev = "put"
\* the bytes of that entry
HeldAt(q, tr, i, k) ==
    IF Touches(tr, i, k) = {} THEN q[k].value_buf
    ELSE tr[Latest(Touches(tr, i, k))].buf
\* the directory has a placement with one side at alive and the other at lost
Placement(alive, lost) ==
    \E r \in Records :
        \/ Primary(r) = alive /\ Mirror(r) = lost
        \/ Mirror(r) = alive /\ Primary(r) = lost

\* C29: when raid_disk_signal rebuilds a placement whose alive address has a
\* cache entry, it issues no bus READ for the placement: the cache lookup is
\* followed at once by the put of the entry's bytes under the lost address.
C29_RecoveryPrefersCache ==
    [][ last'.op = "signal" =>
          \A i \in 1 .. Len(trace') :
              (/\ trace'[i].ev = "get"
               /\ LiveAt(qnode, trace', i, <<trace'[i].disk, trace'[i].block>>))
              => /\ i < Len(trace')
                 /\ trace'[i + 1].ev = "put"
                 /\ trace'[i + 1].buf =
                       HeldAt(qnode, trace', i, <<trace'[i].disk, trace'[i].block>>)
                 /\ trace'[i + 1].disk \in last'.failed
                 /\ Placement(<<trace'[i].disk, trace'[i].block>>,
                              <<trace'[i + 1].disk, trace'[i + 1].block>>) ]_vars

\* a raid_disk_signal that returned 0 after it had rebuilt a lost address
\* with bytes found in the cache
C29_Witness ==
    /\ last.op = "signal"
    /\ last.ret = "ok"
    /\ \E i \in 1 .. Len(trace) - 1 :
          /\ trace[i].ev = "get"
          /\ trace[i].hit
          /\ trace[i].buf \in Values
          /\ trace[i + 1].ev = "put"
          /\ trace[i + 1].buf = trace[i].buf

\* the events of the last call that follow the cache lookup at i, up to the
\* next lookup: the rebuild of one placement
Rebuild(i) ==
    { j \in i + 1 .. Len(trace) : \A x \in i + 1 .. j : trace[x].ev # "get" }
PutsIn(js, k) ==
    { j \in js : trace[j].ev = "put" /\ <<trace[j].disk, trace[j].block>> = k }

\* C30: when raid_disk_signal rebuilds a placement whose alive address has no
\* cache entry, it reads the alive address from the bus and puts the bytes
\* under the alive address and under the lost address.
C30_RebuildPopulatesAlive ==
    (last.op = "signal" /\ last.ret = "ok") =>
        \A i \in 1 .. Len(trace) :
            (trace[i].ev = "get" /\ ~trace[i].hit) =>
                /\ i < Len(trace)
                /\ trace[i + 1].ev = "bus"
                /\ trace[i + 1].type = "READ"
                /\ <<trace[i + 1].disk, trace[i + 1].block>> =
                      <<trace[i].disk, trace[i].block>>
                /\ PutsIn(Rebuild(i), <<trace[i].disk, trace[i].block>>) # {}
                /\ \E j \in Rebuild(i) :
                      /\ trace[j].ev = "put"
                      /\ trace[j].disk \in last.failed
                      /\ Placement(<<trace[i].disk, trace[i].block>>,
                                   <<trace[j].disk, trace[j].block>>)

\* the last call put bytes under address a after the event f
PutAfter(f, a) ==
    \E j \in f + 1 .. Len(trace) :
        trace[j].ev = "put" /\ <<trace[j].disk, trace[j].block>> = a

\* C31: a raid_disk_signal in which a bus response has status 1, that of
\* the WRITE of a cache put included, issues no further bus request and
\* returns an error; one that returns 0 has polled every disk and has, for
\* every disk that reported a failure, formatted it and then put bytes under
\* the lost address of every block record with a side on it.
C31_RecoveryFailsFast ==
    last.op = "signal" =>
        /\ \A i \in 1 .. Len(trace) :
              (trace[i].ev = "bus" /\ trace[i].status = 1)
              => (last.ret = "err" /\ \A j \in i + 1 .. Len(trace) : trace[j].ev # "bus")
        /\ last.ret = "ok" =>
              /\ \A d \in Disks : \E i \in BusAt("STATUS") : trace[i].disk = d
              /\ \A d \in last.failed : \E f \in FormatsOf(d) :
                    \A r \in Records :
                        /\ Rec(r).RAID_disk = d => PutAfter(f, Primary(r))
                        /\ (Rec(r).RAID_disk # d /\ Rec(r).backup_disk = d)
                           => PutAfter(f, Mirror(r))

\* a raid_disk_signal that returned an error when the READ of an alive
\* address failed
C31_Witness ==
    /\ last.op = "signal"
    /\ last.ret = "err"
    /\ Len(trace) > 0
    /\ trace[Len(trace)].ev = "bus"
    /\ trace[Len(trace)].type = "READ"
    /\ trace[Len(trace)].status = 1
    /\ Cardinality(Records) >= 2

\* address a has a cache entry with the bytes buf
Cached(a, buf) == a \in DOMAIN qnode /\ qnode[a].value_buf = buf

\* C32: after a tagline_write(t, b, 1, X) that appended or overwrote and
\* returned 0, the cache has an entry with the bytes X under the primary and
\* under the mirror address of the record of (t, b).
C32_WriteCachesBothSides ==
    ((Appending \/ Overwriting) /\ last.ret = "ok") =>
        /\ last.bnum < Len(head_tag[last.tag + 1].blocks)
        /\ Cached(Primary(<<last.tag + 1, last.bnum + 1>>), last.bufs[1])
        /\ Cached(Mirror(<<last.tag + 1, last.bnum + 1>>), last.bufs[1])

\* an overwrite that returned 0 and whose puts evicted other entries: the
\* block's own entries had left the cache before
C32_Witness ==
    /\ Overwriting
    /\ last.ret = "ok"
    /\ Len(BusWrites) = 2
    /\ Cached(Primary(<<last.tag + 1, last.bnum + 1>>), last.bufs[1])
    /\ Cached(Mirror(<<last.tag + 1, last.bnum + 1>>), last.bufs[1])

\* the keys put by the events of tr
PutKeys(tr) ==
    { <<tr[i].disk, tr[i].block>> : i \in { j \in 1 .. Len(tr) : tr[j].ev = "put" } }

\* C33: every bus WRITE is the eviction of a cache entry: it follows at once
\* the cache put that made the cache overflow and carries the address and
\* the bytes of an entry other than the one put; and a tagline_write whose
\* puts leave the cache within TAGLINE_CACHE_SIZE entries issues no bus
\* request.
C33_WriteBack ==
    [][ /\ \A i \in 1 .. Len(trace') :
              (trace'[i].ev = "bus" /\ trace'[i].type = "WRITE") =>
                  /\ i > 1
                  /\ trace'[i - 1].ev = "put"
                  /\ <<trace'[i - 1].disk, trace'[i - 1].block>> #
                        <<trace'[i].disk, trace'[i].block>>
                  /\ LiveAt(qnode, trace', i, <<trace'[i].disk, trace'[i].block>>)
                  /\ trace'[i].buf =
                        HeldAt(qnode, trace', i, <<trace'[i].disk, trace'[i].block>>)
        /\ (/\ last'.op = "write"
            /\ Cardinality(DOMAIN qnode \cup PutKeys(trace')) <= TAGLINE_CACHE_SIZE)
           => \A i \in 1 .. Len(trace') : trace'[i].ev # "bus" ]_vars

\* an appending write that returned 0 after two puts and no bus request
C33_Witness ==
    /\ Appending
    /\ last.ret = "ok"
    /\ Cardinality(PutKeys(trace)) = 2
    /\ \A i \in 1 .. Len(trace) : trace[i].ev # "bus"

\* the indices of the cache lookups of a call
GetsOf(tr) == { i \in 1 .. Len(tr) : tr[i].ev = "get" }
\* the number of lookups among the first i events of tr
Nth(tr, i) == Cardinality({ j \in GetsOf(tr) : j <= i })

\* C34: a tagline_read does one cache get per block read, on the primary
\* address of the block's record; the get misses exactly when the primary
\* has no cache entry; a bus READ is issued exactly after a get that missed
\* and for the address of that get; so no get and no READ is made on a
\* mirror address.
C34_ReadUsesPrimary ==
    [][ last'.op = "read" =>
          /\ Cardinality(GetsOf(trace')) <= Len1(last'.blks)
          /\ \A i \in GetsOf(trace') :
                /\ last'.tag < taglines_in_use
                /\ last'.bnum + Nth(trace', i) - 1 < Len(head_tag[last'.tag + 1].blocks)
                /\ <<trace'[i].disk, trace'[i].block>> =
                      Primary(<<last'.tag + 1, last'.bnum + Nth(trace', i)>>)
                /\ trace'[i].hit <=>
                      LiveAt(qnode, trace', i, <<trace'[i].disk, trace'[i].block>>)
                /\ ~trace'[i].hit =>
                      /\ i < Len(trace')
                      /\ trace'[i + 1].ev = "bus"
                      /\ trace'[i + 1].type = "READ"
          /\ \A i \in 1 .. Len(trace') :
                (trace'[i].ev = "bus" /\ trace'[i].type = "READ") =>
                    /\ i > 1
                    /\ trace'[i - 1].ev = "get"
                    /\ ~trace'[i - 1].hit
                    /\ <<trace'[i].disk, trace'[i].block>> =
                          <<trace'[i - 1].disk, trace'[i - 1].block>> ]_vars

\* a read that returned 0 after it missed the primary in the cache while the
\* mirror had an entry, and read the primary from the bus
C34_Witness ==
    /\ last.op = "read"
    /\ last.ret = "ok"
    /\ Len(trace) >= 2
    /\ trace[1].ev = "get"
    /\ ~trace[1].hit
    /\ trace[2].ev = "bus"
    /\ trace[2].type = "READ"
    /\ <<trace[2].disk, trace[2].block>> = Primary(<<last.tag + 1, last.bnum + 1>>)
    /\ Mirror(<<last.tag + 1, last.bnum + 1>>) \in DOMAIN qnode

\* the recency list from node k towards the back, n nodes at most
RECURSIVE Chain(_, _)
Chain(k, n) ==
    IF n = 0 \/ k \notin DOMAIN qnode THEN << >>
    ELSE <<k>> \o Chain(qnode[k].prev_node, n - 1)
FromFront == Chain(cache_queue.front_ptr, Cardinality(DOMAIN qnode) + 1)

\* C35: between two cache calls the recency list, walked from front_ptr, is
\* free of cycles and holds every live entry exactly once, its length is
\* the entry count, front_ptr and back_ptr are its two ends, and next_node
\* is the reverse of prev_node.  (One entry per key holds by construction.)
C35_CacheStructure ==
    phase = "cache" =>
        /\ cache_queue.capacity = Cardinality(DOMAIN qnode)
        /\ Len(FromFront) = Cardinality(DOMAIN qnode)
        /\ { FromFront[i] : i \in 1 .. Len(FromFront) } = DOMAIN qnode
        /\ DOMAIN qnode = {} =>
              (cache_queue.front_ptr = NULL /\ cache_queue.back_ptr = NULL)
        /\ DOMAIN qnode # {} =>
              /\ FromFront[Len(FromFront)] = cache_queue.back_ptr
              /\ qnode[cache_queue.back_ptr].prev_node = NULL
              /\ qnode[cache_queue.front_ptr].next_node = NULL
              /\ \A i \in 1 .. Len(FromFront) - 1 :
                    qnode[FromFront[i + 1]].next_node = FromFront[i]

\* the recency list of the queue nodes q from node k towards the back
RECURSIVE ChainIn(_, _, _)
ChainIn(q, k, n) ==
    IF n = 0 \/ k \notin DOMAIN q THEN << >>
    ELSE <<k>> \o ChainIn(q, q[k].prev_node, n - 1)
\* a list without the key k
Without(c, k) == SelectSeq(c, LAMBDA x : x # k)

\* C36: a put_raid_cache on a key that has an entry writes the new bytes
\* into the entry, leaves the set of entries and the entry count as they
\* were, issues no bus request, puts the entry at the back of the recency
\* list, behind every other entry, and keeps the order of the other entries.
C36_PutOnLiveKey ==
    [][ (phase = "cache" /\ last'.op = "put" /\ last'.key \in DOMAIN qnode) =>
          /\ DOMAIN qnode' = DOMAIN qnode
          /\ cache_queue'.capacity = cache_queue.capacity
          /\ qnode'[last'.key].value_buf = last'.buf
          /\ \A i \in 1 .. Len(trace') : trace'[i].ev # "bus"
          /\ cache_queue'.back_ptr = last'.key
          /\ Cardinality(DOMAIN qnode) > 1 => cache_queue'.front_ptr # last'.key
          /\ Without(ChainIn(qnode', cache_queue'.front_ptr,
                             Cardinality(DOMAIN qnode) + 1), last'.key)
             = Without(ChainIn(qnode, cache_queue.front_ptr,
                               Cardinality(DOMAIN qnode) + 1), last'.key) ]_vars

\* what fresh memory holds in a write to a tagline that exists, over a bus
\* that never reports an error
NoGarbage == [trap |-> TRUE, max_start |-> 0, addr |-> a0]

\* nblocks successive single-block writes at bnum, bnum + 1, ... that stop
\* at the first one that fails
RECURSIVE SingleWrites(_, _, _, _, _, _)
SingleWrites(s, tag, bnum, nblocks, bufs, i) ==
    IF i >= nblocks THEN Return(s, 0)
    ELSE Then(tagline_write(s, tag, bnum + i, 1, <<bufs[i + 1]>>, NoGarbage), LAMBDA r :
           IF Failed(r) THEN Return(r, -1)
           ELSE SingleWrites(r, tag, bnum, nblocks, bufs, i + 1))

\* nblocks successive single-block reads
RECURSIVE SingleReads(_, _, _, _, _)
SingleReads(s, tag, bnum, nblocks, i) ==
    IF i >= nblocks THEN Return(s, 0)
    ELSE Then(tagline_read(s, tag, bnum + i, 1), LAMBDA r :
           IF Failed(r) THEN Return(r, -1)
           ELSE SingleReads(r, tag, bnum, nblocks, i + 1))

\* the call left the program as s: result, what was delivered, directory,
\* cursor, cache, array, and the cache calls and bus requests made
SameAs(s) ==
    /\ last'.ret = RetOf(s)
    /\ last'.out = s.out
    /\ head_tag' = s.head_tag
    /\ taglines_in_use' = s.taglines_in_use
    /\ current_disk' = s.current_disk
    /\ current_block' = s.current_block
    /\ hashtable' = s.hashtable
    /\ qnode' = s.qnode
    /\ cache_queue' = [capacity |-> s.capacity, back_ptr |-> s.back_ptr,
                       front_ptr |-> s.front_ptr]
    /\ raid' = s.raid
    /\ trace' = s.trace

\* C37: a tagline_write or tagline_read of nblocks blocks of a tagline that
\* exists has the result and the effect of nblocks successive single-block
\* calls that stop at the first failing block; with nblocks = 0 nothing is
\* read, written or allocated.
C37_MultiBlock ==
    [][ (last'.op \in {"read", "write"} /\ last'.tag < taglines_in_use) =>
          /\ last'.op = "write" =>
                \E s \in { SingleWrites(Cur({}, {}), last'.tag, last'.bnum,
                                        last'.blks, last'.bufs, 0) } : SameAs(s)
          /\ last'.op = "read" =>
                \E s \in { SingleReads(Cur({}, {}), last'.tag, last'.bnum,
                                       last'.blks, 0) } : SameAs(s)
          /\ last'.blks = 0 =>
                (trace' = << >> /\ last'.allocs = 0 /\ last'.out = << >>) ]_vars

\* the placement sides of the directory: the primary of every block record
\* and the mirror of every record that has one assigned
Sides == { <<r, "primary">> : r \in Records }
         \cup { <<r, "mirror">> : r \in { q \in Records : Rec(q).backup_set } }
AddressOf(x) == IF x[2] = "primary" THEN Primary(x[1]) ELSE Mirror(x[1])

\* C38: across all taglines and block records the primary and the assigned
\* mirror addresses are pairwise distinct (disk, block) pairs.
C38_AddressesDistinct ==
    \A x \in Sides : \A y \in Sides : x # y => AddressOf(x) # AddressOf(y)

\* C39: a tagline_write that returns an error leaves the tagline directory
\* and the allocation cursor as they were before the call: no block record
\* is added, none is left with a mirror that was never assigned, and
\* max_start_allowed of the tagline is not advanced.
C39_FailedWriteChangesNothing ==
    [][ (last'.op = "write" /\ last'.ret = "err") =>
          /\ head_tag' = head_tag
          /\ taglines_in_use' = taglines_in_use
          /\ current_disk' = current_disk
          /\ current_block' = current_block ]_vars

\* C40: a put_raid_cache that returns an error leaves the cache as it was
\* before the call: the same entries with the same buffers in the same
\* recency order and the same entry count, and no entry for the key put
\* unless it had one.
C40_FailedPutChangesNothing ==
    [][ (phase = "cache" /\ last'.op = "put" /\ last'.ret = "err") =>
          /\ qnode' = qnode
          /\ cache_queue' = cache_queue
          /\ hashtable' = hashtable ]_vars

====
